---- MODULE Spec2Model ----
(***************************************************************************)
(* Model of the PostgreSQL MCP gateway: the process-wide databaseState     *)
(* (database.ts), the permission utilities (utils/permissions.ts), the     *)
(* HTTP dispatcher with its session registry (server.ts) and the `query`   *)
(* and `schema` tool handlers (handlers/tools.ts).                         *)
(*                                                                         *)
(* JavaScript runs every handler to its next `await` without interruption, *)
(* so one action of the model is the code between two suspension points.   *)
(***************************************************************************)
EXTENDS Integers, Sequences, FiniteSets, TLC

\* ------------------------------------------------------------------------
\* Bounds of the model
\* ------------------------------------------------------------------------
MaxCalls == 1        \* posted requests handled in one run of Spec
MaxRacing == 2       \* posted requests handled in one run of RaceSpec
MaxSessions == 1     \* SSE transports constructed in one run
MaxOpened == 2       \* SSE transports constructed in one run of the registry
MaxPools == 2        \* Pool objects constructed in one run
MaxTables == 1       \* rows returned by the table listing of `schema`
MaxSqlLen == 3       \* tokens of a statement text in QuerySpec
MaxTokens == 3       \* tokens of a `permissions` parameter in GrantSpec

\* ------------------------------------------------------------------------
\* SQL text: a sequence of lexical tokens.  Adjacent tokens are adjacent
\* characters: <<"DROP", "TABLE">> is the text DROPTABLE.
\* ------------------------------------------------------------------------
WhiteSpace == {" ", "\n"}

toUpperCase(t) ==
  CASE t = "select" -> "SELECT"
    [] t = "drop"   -> "DROP"
    [] t = "insert" -> "INSERT"
    [] t = "x"      -> "X"
    [] t = "grant"  -> "GRANT"
    [] t = "\"t\""  -> "\"T\""
    [] OTHER        -> t

RECURSIVE upper(_)
upper(s) == IF s = << >> THEN << >> ELSE <<toUpperCase(Head(s))>> \o upper(Tail(s))

RECURSIVE trimStart(_)
trimStart(s) ==
  IF s # << >> /\ Head(s) \in WhiteSpace THEN trimStart(Tail(s)) ELSE s

RECURSIVE trimEnd(_)
trimEnd(s) ==
  IF s # << >> /\ s[Len(s)] \in WhiteSpace THEN trimEnd(SubSeq(s, 1, Len(s) - 1)) ELSE s

trim(s) == trimEnd(trimStart(s))

\* replace(/--.*$/gm, ''): from "--" up to, not including, the line end
RECURSIVE lineScan(_, _)
lineScan(s, inComment) ==
  IF s = << >> THEN << >>
  ELSE IF inComment
       THEN IF Head(s) = "\n" THEN <<"\n">> \o lineScan(Tail(s), FALSE)
                              ELSE lineScan(Tail(s), TRUE)
       ELSE IF Head(s) = "--" THEN lineScan(Tail(s), TRUE)
                              ELSE <<Head(s)>> \o lineScan(Tail(s), FALSE)

stripLineComments(s) == lineScan(s, FALSE)

\* replace(/\/\*[\s\S]*?\*\//g, ''): from "/*" to the first "*/" after it;
\* an opener with no closer is left in place
RECURSIVE stripBlockComments(_)
stripBlockComments(s) ==
  IF s = << >> THEN << >>
  ELSE IF Head(s) = "/*" /\ \E i \in 2..Len(s) : s[i] = "*/"
       THEN LET j == CHOOSE i \in 2..Len(s) :
                       /\ s[i] = "*/"
                       /\ \A k \in 2..(i - 1) : s[k] # "*/"
            IN  stripBlockComments(SubSeq(s, j + 1, Len(s)))
       ELSE <<Head(s)>> \o stripBlockComments(Tail(s))

\* replace(/\s+/g, ' ')
RECURSIVE collapseWhitespace(_)
collapseWhitespace(s) ==
  IF s = << >> THEN << >>
  ELSE IF Head(s) \in WhiteSpace
       THEN <<" ">> \o collapseWhitespace(trimStart(s))
       ELSE <<Head(s)>> \o collapseWhitespace(Tail(s))

cleanSql(sql) ==
  trim(collapseWhitespace(stripBlockComments(stripLineComments(upper(trim(sql))))))

\* /^\s*KEYWORD\s+/ on the cleaned text: the keyword, then white space
leadingKeyword(clean, kw) ==
  /\ Len(clean) >= 2
  /\ clean[1] = kw
  /\ clean[2] \in WhiteSpace

ddlPatterns == {"CREATE", "DROP", "ALTER", "TRUNCATE", "COMMENT"}
dmlPatterns == {"INSERT", "UPDATE", "DELETE", "MERGE", "UPSERT"}

isDdl(clean) == \E kw \in ddlPatterns : leadingKeyword(clean, kw)
isDml(clean) == \E kw \in dmlPatterns : leadingKeyword(clean, kw)

includes(list, p) == \E i \in 1..Len(list) : list[i] = p

NoError == [kind |-> "none", grant |-> << >>]

\* validateSqlPermissions with the DML check lost
validateSqlPermissionsNoDml(sql, permissions) ==
  LET clean == cleanSql(sql) IN
  IF clean = << >> THEN [kind |-> "Empty query not allowed", grant |-> << >>]
  ELSE IF isDdl(clean) /\ ~includes(permissions, "ddl")
       THEN [kind |-> "DDL operations not permitted", grant |-> permissions]
  ELSE IF ~isDdl(clean) /\ ~isDml(clean) /\ ~includes(permissions, "read")
       THEN [kind |-> "Read operations not permitted", grant |-> permissions]
  ELSE NoError

\* validateSqlPermissions with the empty check lost
validateSqlPermissionsNoEmpty(sql, permissions) ==
  LET clean == cleanSql(sql) IN
  IF isDdl(clean) /\ ~includes(permissions, "ddl")
       THEN [kind |-> "DDL operations not permitted", grant |-> permissions]
  ELSE IF isDml(clean) /\ ~includes(permissions, "dml")
       THEN [kind |-> "DML operations not permitted", grant |-> permissions]
  ELSE IF ~isDdl(clean) /\ ~isDml(clean) /\ ~includes(permissions, "read")
       THEN [kind |-> "Read operations not permitted", grant |-> permissions]
  ELSE NoError

\* validateSqlPermissions: the Error it throws, or NoError when it returns
validateSqlPermissions(sql, permissions) ==
  LET clean == cleanSql(sql) IN
  IF clean = << >> THEN [kind |-> "Empty query not allowed", grant |-> << >>]
  ELSE IF isDdl(clean) /\ ~includes(permissions, "ddl")
       THEN [kind |-> "DDL operations not permitted", grant |-> permissions]
  ELSE IF isDml(clean) /\ ~includes(permissions, "dml")
       THEN [kind |-> "DML operations not permitted", grant |-> permissions]
  ELSE IF ~isDdl(clean) /\ ~isDml(clean) /\ ~includes(permissions, "read")
       THEN [kind |-> "Read operations not permitted", grant |-> permissions]
  ELSE NoError


\* parsePermissions on the comma-separated tokens of the `permissions`
\* parameter; << >> is the absent (or empty) parameter
normalizeToken(t) ==
  CASE t = "Read"  -> "read"
    [] t = " DML"  -> "dml"
    [] t = "DDL "  -> "ddl"
    [] t = " "     -> ""
    [] OTHER       -> t

RECURSIVE collectPermissions(_, _)
collectPermissions(tokens, validPermissions) ==
  IF tokens = << >> THEN [threw |-> FALSE, value |-> validPermissions]
  ELSE LET permission == normalizeToken(Head(tokens)) IN
       IF permission \in {"read", "ddl", "dml"}
       THEN collectPermissions(Tail(tokens),
              IF includes(validPermissions, permission)
              THEN validPermissions
              ELSE Append(validPermissions, permission))
       ELSE [threw |-> TRUE, value |-> << >>]

\* parsePermissions granting the known tokens of a parameter that has
\* unknown ones
knownToken(t) == normalizeToken(t) \in {"read", "ddl", "dml"}
parsePermissionsPartial(permissionsParam) ==
  IF permissionsParam = << >> THEN [threw |-> FALSE, value |-> <<"read">>]
  ELSE LET r == collectPermissions(SelectSeq(permissionsParam, knownToken), << >>) IN
       [threw |-> FALSE,
        value |-> IF Len(r.value) > 0 THEN r.value ELSE <<"read">>]

parsePermissions(permissionsParam) ==
  IF permissionsParam = << >> THEN [threw |-> FALSE, value |-> <<"read">>]
  ELSE LET r == collectPermissions(permissionsParam, << >>) IN
       IF r.threw THEN r
       ELSE [threw |-> FALSE,
             value |-> IF Len(r.value) > 0 THEN r.value ELSE <<"read">>]

\* ------------------------------------------------------------------------
\* Target identities (connection strings) and their URL form
\* ------------------------------------------------------------------------
Null == "null"
DatabaseUrls == {"A", "B", "bad"}

\* new URL(databaseUrl) throws for a string that is no URL
isUrl(u) == u \in {"A", "B"}

urlProtocol(u) == IF u = "A" THEN "postgresql:" ELSE "postgres:"
urlUsername(u) == IF u = "A" THEN "alice" ELSE "bob"
urlPassword(u) == IF u = "A" THEN "pwA" ELSE "pwB"
urlHost(u)     == IF u = "A" THEN "hostA" ELSE "hostB"
urlPathname(u) == <<"db">>

NullUrl ==
  [protocol |-> "", username |-> "", password |-> "", host |-> "",
   pathname |-> << >>]

\* the URL object stored in resourceBaseUrl: protocol and password replaced
displayUrl(u) ==
  [protocol |-> "postgres:", username |-> urlUsername(u),
   password |-> "", host |-> urlHost(u), pathname |-> urlPathname(u)]

\* url.href: the parts of the serialized URL; user name and password are
\* written when they are not empty
href(url) ==
  <<url.protocol, "//">>
    \o (IF url.username = "" /\ url.password = "" THEN << >>
        ELSE <<url.username>>
               \o (IF url.password = "" THEN << >> ELSE <<":", url.password>>)
               \o <<"@">>)
    \o <<url.host>> \o url.pathname

\* new URL(relative, base): the last segment of the base path is replaced
resolveUrl(relative, base) ==
  [base EXCEPT !.pathname =
     (IF @ = << >> THEN << >> ELSE SubSeq(@, 1, Len(@) - 1)) \o relative]


\* ------------------------------------------------------------------------
\* Map<string, V>: entries in insertion order
\* ------------------------------------------------------------------------
mapHas(m, k) == \E i \in 1..Len(m) : m[i].key = k
mapGet(m, k) == m[CHOOSE i \in 1..Len(m) : m[i].key = k].value
mapSet(m, k, v) ==
  IF mapHas(m, k)
  THEN [i \in 1..Len(m) |-> IF m[i].key = k THEN [key |-> k, value |-> v] ELSE m[i]]
  ELSE Append(m, [key |-> k, value |-> v])
mapKeepOthers(k, e) == e.key # k
mapDelete(m, k) == SelectSeq(m, LAMBDA e : mapKeepOthers(k, e))
mapKeys(m) == {m[i].key : i \in 1..Len(m)}

\* ------------------------------------------------------------------------
\* State
\* ------------------------------------------------------------------------
VARIABLES
  env,                    \* process.env: MCP_SECRET, DATABASE_URL
  pool,                   \* databaseState.pool: index into pools, 0 = null
  resourceBaseUrl,        \* databaseState.resourceBaseUrl
  currentDatabaseUrl,     \* databaseState.currentDatabaseUrl
  currentPermissions,     \* databaseState.currentPermissions
  pools,                  \* every Pool constructed so far
  activeTransports,       \* transportId -> transport (its session id)
  transportPermissions,   \* transportId -> Permission[]
  transportDatabaseUrls,  \* transportId -> string
  transports,             \* every SSEServerTransport constructed so far
  calls                   \* posted requests and their tool invocations

vars == <<env, pool, resourceBaseUrl, currentDatabaseUrl, currentPermissions,
          pools, activeTransports, transportPermissions, transportDatabaseUrls,
          transports, calls>>

dbVars == <<pool, resourceBaseUrl, currentDatabaseUrl, pools>>
registryVars == <<activeTransports, transportPermissions, transportDatabaseUrls,
                  transports>>

Secret == "s3cret"

\* the four fields of databaseState that initializeDatabase works on
dbState ==
  [pool |-> pool, pools |-> pools, resourceBaseUrl |-> resourceBaseUrl,
   currentDatabaseUrl |-> currentDatabaseUrl, threw |-> FALSE]

\* initializeDatabase that leaves the previous pool open
initializeDatabaseNoEnd(st, databaseUrl) ==
  IF st.currentDatabaseUrl = databaseUrl /\ st.pool # 0 THEN st
  ELSE LET created == Append(st.pools, [target |-> databaseUrl, ended |-> 0])
       IN  IF isUrl(databaseUrl)
           THEN [pool |-> Len(created), pools |-> created,
                 resourceBaseUrl |-> displayUrl(databaseUrl),
                 currentDatabaseUrl |-> databaseUrl, threw |-> FALSE]
           ELSE [pool |-> Len(created), pools |-> created,
                 resourceBaseUrl |-> st.resourceBaseUrl,
                 currentDatabaseUrl |-> st.currentDatabaseUrl, threw |-> TRUE]

\* initializeDatabase without the early return for the current identity
initializeDatabaseAlways(st, databaseUrl) ==
  LET ended == IF st.pool # 0
               THEN [st.pools EXCEPT ![st.pool].ended = @ + 1]
               ELSE st.pools
      created == Append(ended, [target |-> databaseUrl, ended |-> 0])
  IN  IF isUrl(databaseUrl)
      THEN [pool |-> Len(created), pools |-> created,
            resourceBaseUrl |-> displayUrl(databaseUrl),
            currentDatabaseUrl |-> databaseUrl, threw |-> FALSE]
      ELSE [pool |-> Len(created), pools |-> created,
            resourceBaseUrl |-> st.resourceBaseUrl,
            currentDatabaseUrl |-> st.currentDatabaseUrl, threw |-> TRUE]

\* initializeDatabase(databaseUrl) run on the state st; threw: new URL threw
initializeDatabase(st, databaseUrl) ==
  IF st.currentDatabaseUrl = databaseUrl /\ st.pool # 0 THEN st
  ELSE LET ended == IF st.pool # 0
                    THEN [st.pools EXCEPT ![st.pool].ended = @ + 1]
                    ELSE st.pools
           created == Append(ended, [target |-> databaseUrl, ended |-> 0])
       IN  IF isUrl(databaseUrl)
           THEN [pool |-> Len(created), pools |-> created,
                 resourceBaseUrl |-> displayUrl(databaseUrl),
                 currentDatabaseUrl |-> databaseUrl, threw |-> FALSE]
           ELSE [pool |-> Len(created), pools |-> created,
                 resourceBaseUrl |-> st.resourceBaseUrl,
                 currentDatabaseUrl |-> st.currentDatabaseUrl, threw |-> TRUE]

\* a step is taken only while it leaves at most MaxPools pools constructed
setDbState(st) ==
  /\ Len(st.pools) <= MaxPools
  /\ pool' = st.pool
  /\ pools' = st.pools
  /\ resourceBaseUrl' = st.resourceBaseUrl
  /\ currentDatabaseUrl' = st.currentDatabaseUrl

\* getDatabaseUrl(queryParams): "" is the absent parameter; the environment
\* variable stands for both DATABASE_URL and the command-line argument
getDatabaseUrl(db) ==
  IF db # "" THEN [threw |-> FALSE, value |-> db]
  ELSE IF env.DATABASE_URL # "" THEN [threw |-> FALSE, value |-> env.DATABASE_URL]
  ELSE [threw |-> TRUE, value |-> ""]

\* validateSecret(queryParams)
validateSecret(secret) ==
  IF env.MCP_SECRET = "" THEN [threw |-> TRUE, value |-> FALSE]
  ELSE [threw |-> FALSE, value |-> (secret = env.MCP_SECRET)]

\* ------------------------------------------------------------------------
\* Posted requests and their tool invocations
\* ------------------------------------------------------------------------
NoRequest == [name |-> "", sql |-> << >>, table_name |-> "", db |-> ""]
NoResult == [kind |-> "none", isError |-> FALSE, prefix |-> "", message |-> NoError]

\* a posted request: pc is the suspension point it waits at
IdleCall ==
  [pc |-> "idle",          \* idle, body, connect, begin, statement, tables,
                           \* columns, commit, rollback, listing, done
   sessionId |-> 0,        \* the sessionId parameter of the post: 0 is null
                           \* (no parameter), -1 the empty string
   session |-> 0,          \* the transport the post was handed to
   request |-> NoRequest,  \* the CallTool request read from the body
   checked |-> << >>,      \* permissions passed to validateSqlPermissions
   pool |-> 0,             \* the pool connect() was called on
   client |-> "none",      \* none, held, released
   releases |-> 0,         \* calls of client.release()
   log |-> << >>,          \* statements sent on the client, in order
   replies |-> << >>,      \* how each of them settled: ok, empty, failed
   error |-> NoError,      \* the error caught by the handler
   todo |-> 0,             \* tables left in the loop of `schema`
   returns |-> 0,          \* results returned or thrown by the handler
   uris |-> << >>,         \* the resource URIs ListResources returned
   result |-> NoResult]

Init ==
  /\ env \in [MCP_SECRET : {"", Secret}, DATABASE_URL : {"", "A"}]
  /\ pool = 0
  /\ resourceBaseUrl = NullUrl
  /\ currentDatabaseUrl = Null
  /\ currentPermissions = <<"read">>
  /\ pools = << >>
  /\ activeTransports = << >>
  /\ transportPermissions = << >>
  /\ transportDatabaseUrls = << >>
  /\ transports = << >>
  /\ calls = [c \in 1..MaxCalls |-> IdleCall]

\* ------------------------------------------------------------------------
\* handleHttpRequest (server.ts)
\* ------------------------------------------------------------------------
SecretParams == {"", Secret, "wrong"}
DbParams == {"", "B", "bad"}
PermissionParams == {<< >>, <<"Read", " DML", "read">>, <<"read", "bogus">>}

httpResponse(status, cors, error) ==
  [status |-> status, cors |-> cors, error |-> error,
   hasDatabase |-> FALSE, activeConnections |-> 0, secretRequired |-> FALSE]

\* requests that the secret check applies to
gated(method, path) ==
  method # "OPTIONS" /\ path # "/health" /\ path # "/message"

\* the secret gate comparing the secret only when one is presented
secretGateIfPresent(method, path, secret) ==
  IF gated(method, path)
  THEN LET v == validateSecret(secret) IN
       IF v.threw THEN 500 ELSE IF secret # "" /\ ~v.value THEN 401 ELSE 0
  ELSE 0

\* the secret gate: 0 when the request passes
secretGate(method, path, secret) ==
  IF gated(method, path)
  THEN LET v == validateSecret(secret) IN
       IF v.threw THEN 500 ELSE IF ~v.value THEN 401 ELSE 0
  ELSE 0

\* the try block with initializeDatabase ahead of parsePermissions
extractRoutingDatabaseFirst(db, permissionsParam) ==
  LET u == getDatabaseUrl(db) IN
  IF u.threw
  THEN [threw |-> TRUE, st |-> dbState, permissions |-> currentPermissions,
        databaseUrl |-> "", parsed |-> << >>]
  ELSE LET st == initializeDatabase(dbState, u.value)
           p == parsePermissions(permissionsParam)
       IN  [threw |-> st.threw \/ p.threw, st |-> st,
            permissions |-> IF st.threw \/ p.threw THEN currentPermissions
                            ELSE p.value,
            databaseUrl |-> u.value, parsed |-> p.value]

\* the try block that extracts database URL and permissions
extractRouting(db, permissionsParam) ==
  LET u == getDatabaseUrl(db)
      p == IF u.threw THEN u ELSE parsePermissions(permissionsParam)
  IN  IF u.threw \/ p.threw
      THEN [threw |-> TRUE, st |-> dbState, permissions |-> currentPermissions,
            databaseUrl |-> "", parsed |-> << >>]
      ELSE LET st == initializeDatabase(dbState, u.value) IN
           [threw |-> st.threw, st |-> st,
            permissions |-> IF st.threw THEN currentPermissions ELSE p.value,
            databaseUrl |-> u.value, parsed |-> p.value]

\* handleHttpRequest for every request but POST /message: the new
\* databaseState, whether a transport is registered, and the response
handleHttpRequest(method, path, secret, db, permissionsParam) ==
  LET gate == secretGate(method, path, secret)
      r == extractRouting(db, permissionsParam)
      untouched == [st |-> dbState, permissions |-> currentPermissions,
                    open |-> FALSE, parsed |-> << >>, databaseUrl |-> "",
                    response |-> httpResponse(0, FALSE, "")]
      routed == [untouched EXCEPT !.st = r.st, !.permissions = r.permissions]
  IN
  IF gate = 401
  THEN [untouched EXCEPT !.response = httpResponse(401, TRUE, "Invalid or missing secret")]
  ELSE IF gate = 500
  THEN [untouched EXCEPT !.response =
          httpResponse(500, TRUE, "MCP_SECRET environment variable is required for HTTP mode")]
  ELSE IF r.threw
  THEN [routed EXCEPT !.response = httpResponse(400, TRUE, "extraction failed")]
  ELSE IF method = "OPTIONS"
  THEN [routed EXCEPT !.response = httpResponse(200, TRUE, "")]
  ELSE IF method = "GET" /\ path = "/sse"
  THEN [routed EXCEPT !.open = TRUE, !.parsed = r.parsed, !.databaseUrl = r.databaseUrl,
                      !.response = httpResponse(200, TRUE, "")]
  ELSE IF method = "GET" /\ path = "/health"
  THEN [routed EXCEPT !.response =
          [status |-> 200, cors |-> TRUE, error |-> "",
           hasDatabase |-> (r.st.pool # 0),
           activeConnections |-> Len(activeTransports),
           secretRequired |-> (env.MCP_SECRET # "")]]
  ELSE [routed EXCEPT !.response = httpResponse(404, FALSE, "Not found")]

\* Math.random().toString(36).substring(2, 11): ids are opaque, so a new id
\* is one already handed out or the first one that was not
usedIds == {transports[i].transportId : i \in 1..Len(transports)}
randomIds == usedIds \cup {Cardinality(usedIds) + 1}

\* openSession that stores no target for a session on the default target
openSessionDefaultTarget(transportId, permissions, databaseUrl, secret, permissionsParam) ==
  LET sessionId == Len(transports) + 1 IN
  /\ transports' = Append(transports,
       [transportId |-> transportId, closed |-> FALSE,
        permissions |-> permissions, databaseUrl |-> databaseUrl,
        secret |-> secret, permissionsParam |-> permissionsParam])
  /\ activeTransports' = mapSet(activeTransports, transportId, sessionId)
  /\ transportPermissions' = mapSet(transportPermissions, transportId, permissions)
  /\ transportDatabaseUrls' =
       IF databaseUrl = env.DATABASE_URL THEN transportDatabaseUrls
       ELSE mapSet(transportDatabaseUrls, transportId, databaseUrl)

\* openSession storing the new grant for every session of the registry
openSessionRegrant(transportId, permissions, databaseUrl, secret, permissionsParam) ==
  LET sessionId == Len(transports) + 1 IN
  /\ transports' = Append(transports,
       [transportId |-> transportId, closed |-> FALSE,
        permissions |-> permissions, databaseUrl |-> databaseUrl,
        secret |-> secret, permissionsParam |-> permissionsParam])
  /\ activeTransports' = mapSet(activeTransports, transportId, sessionId)
  /\ transportPermissions' =
       mapSet([i \in 1..Len(transportPermissions) |->
                 [key |-> transportPermissions[i].key, value |-> permissions]],
              transportId, permissions)
  /\ transportDatabaseUrls' = mapSet(transportDatabaseUrls, transportId, databaseUrl)

\* new SSEServerTransport, registered under a Math.random() id; the record
\* of the transport keeps what it was opened with, the secret and the
\* `permissions` parameter included
openSession(transportId, permissions, databaseUrl, secret, permissionsParam) ==
  LET sessionId == Len(transports) + 1 IN
  /\ transports' = Append(transports,
       [transportId |-> transportId, closed |-> FALSE,
        permissions |-> permissions, databaseUrl |-> databaseUrl,
        secret |-> secret, permissionsParam |-> permissionsParam])
  /\ activeTransports' = mapSet(activeTransports, transportId, sessionId)
  /\ transportPermissions' = mapSet(transportPermissions, transportId, permissions)
  /\ transportDatabaseUrls' = mapSet(transportDatabaseUrls, transportId, databaseUrl)

\* one request, not POST /message, handled from arrival to its response
httpRequest(method, path, secret, db, permissionsParam) ==
  LET out == handleHttpRequest(method, path, secret, db, permissionsParam) IN
  /\ setDbState(out.st)
  /\ currentPermissions' = out.permissions
  /\ IF out.open
     THEN \E transportId \in randomIds :
            openSession(transportId, out.parsed, out.databaseUrl, secret,
                        permissionsParam)
     ELSE UNCHANGED registryVars
  /\ UNCHANGED <<env, calls>>

\* the parameters of a request: db and permissions are read only past the
\* gate; a malformed db and an invalid permission token come one at a time
requestParams(method, path) ==
  {p \in (IF gated(method, path) THEN SecretParams ELSE {""})
           \X DbParams \X PermissionParams :
     /\ secretGate(method, path, p[1]) # 0 => p[2] = "" /\ p[3] = << >>
     /\ p[2] = "bad" => p[3] = << >>
     /\ p[3] = <<"read", "bogus">> => p[2] = ""}

\* GET /sse while fewer than `bound` transports have been constructed
getSse(bound) ==
  \E p \in requestParams("GET", "/sse") :
    /\ handleHttpRequest("GET", "/sse", p[1], p[2], p[3]).open
         => Len(transports) < bound
    /\ httpRequest("GET", "/sse", p[1], p[2], p[3])

GetSse == getSse(MaxSessions)

Preflight ==
  \E p \in requestParams("OPTIONS", "/sse") :
    httpRequest("OPTIONS", "/sse", p[1], p[2], p[3])

GetHealth ==
  \E p \in requestParams("GET", "/health") :
    httpRequest("GET", "/health", p[1], p[2], p[3])

OtherRequest ==
  \E p \in requestParams("GET", "/other") :
    httpRequest("GET", "/other", p[1], p[2], p[3])

\* transport.onclose leaving the transport in activeTransports
CloseTransportKeepChannel(s) ==
  LET transportId == transports[s].transportId IN
  /\ activeTransports' = activeTransports
  /\ transportPermissions' = mapDelete(transportPermissions, transportId)
  /\ transportDatabaseUrls' = mapDelete(transportDatabaseUrls, transportId)
  /\ transports' = [transports EXCEPT ![s].closed = TRUE]
  /\ UNCHANGED <<env, dbVars, currentPermissions, calls>>

\* transport.onclose of the transport with session id s
CloseTransport(s) ==
  LET transportId == transports[s].transportId IN
  /\ activeTransports' = mapDelete(activeTransports, transportId)
  /\ transportPermissions' = mapDelete(transportPermissions, transportId)
  /\ transportDatabaseUrls' = mapDelete(transportDatabaseUrls, transportId)
  /\ transports' = [transports EXCEPT ![s].closed = TRUE]
  /\ UNCHANGED <<env, dbVars, currentPermissions, calls>>

\* postTarget falling back to the last entry of the registry
postTargetLast(sessionId) ==
  IF sessionId > 0
  THEN IF \E i \in 1..Len(activeTransports) : activeTransports[i].value = sessionId
       THEN activeTransports[CHOOSE i \in 1..Len(activeTransports) :
                               activeTransports[i].value = sessionId].key
       ELSE 0
  ELSE IF Len(activeTransports) > 0
       THEN activeTransports[Len(activeTransports)].key ELSE 0

\* POST /message: the registry key of the transport the post is handed to,
\* 0 when it is answered 404; `if (sessionId)` is false for null and for ""
postTarget(sessionId) ==
  IF sessionId > 0
  THEN IF \E i \in 1..Len(activeTransports) : activeTransports[i].value = sessionId
       THEN activeTransports[CHOOSE i \in 1..Len(activeTransports) :
                               activeTransports[i].value = sessionId].key
       ELSE 0
  ELSE IF Len(activeTransports) > 0 THEN activeTransports[1].key ELSE 0

\* POST /message: the response when the post is handed to no transport
postResponse(sessionId) ==
  IF postTarget(sessionId) # 0 THEN httpResponse(202, TRUE, "")
  ELSE IF sessionId > 0 THEN httpResponse(404, TRUE, "Invalid session ID")
  ELSE httpResponse(404, TRUE, "No active MCP session found")

\* the routing context of a registry entry installed, then handlePostMessage
routeTo(c, sessionId, transportId) ==
  LET storedPermissions == mapGet(transportPermissions, transportId)
      storedDatabaseUrl == mapGet(transportDatabaseUrls, transportId)
  IN  /\ currentPermissions' = storedPermissions
      /\ setDbState(initializeDatabase(dbState, storedDatabaseUrl))
      /\ calls' = [calls EXCEPT ![c] =
           [IdleCall EXCEPT !.pc = "body", !.sessionId = sessionId,
                            !.session = mapGet(activeTransports, transportId)]]

\* POST /message, up to the await of transport.handlePostMessage, with a
\* sessionId parameter from the set sessionIds
postMessage(c, sessionIds) ==
  /\ calls[c].pc = "idle"
  /\ \A d \in 1..(c - 1) : calls[d].pc # "idle"
  /\ UNCHANGED <<env, registryVars>>
  /\ \E sessionId \in sessionIds :
       IF postTarget(sessionId) # 0
       THEN routeTo(c, sessionId, postTarget(sessionId))
       ELSE UNCHANGED <<dbVars, currentPermissions, calls>>

\* the session ids tried are those handed out, one that never was, none and
\* the empty one
PostMessage(c) == postMessage(c, (-1)..(Len(transports) + 1))

\* the same without the empty session id
PostWithId(c) == postMessage(c, 0..(Len(transports) + 1))

\* ------------------------------------------------------------------------
\* CallToolRequestSchema handler (handlers/tools.ts)
\* ------------------------------------------------------------------------
SqlInputs == {<<"--", "x">>, <<"select", " ", "x">>, <<"insert", " ", "x">>}
InBandDbs == {"", "B"}
ToolRequests ==
  {r \in [name : {"query"}, sql : SqlInputs, table_name : {""}, db : InBandDbs] :
     r.db # "" => r.sql = <<"select", " ", "x">>}
    \cup [name : {"schema"}, sql : {<< >>}, table_name : {"", "t"}, db : {""}]
    \cup [name : {"resources/list"}, sql : {<< >>}, table_name : {""}, db : {""}]

\* extractDatabaseUrlFromRequest: "" is null
extractDatabaseUrlFromRequest(request) == request.db

dbError(what) == [kind |-> what, grant |-> << >>]

\* the handler returns a tool result
returned(call, isError, prefix, message) ==
  [call EXCEPT !.pc = "done", !.returns = @ + 1,
               !.result = [kind |-> "returned", isError |-> isError,
                           prefix |-> prefix, message |-> message]]

\* the handler rejects: the protocol layer answers with a JSON-RPC error
thrown(call, message) ==
  [call EXCEPT !.pc = "done", !.returns = @ + 1,
               !.result = [kind |-> "thrown", isError |-> FALSE,
                           prefix |-> "", message |-> message]]

\* finally { client.release() }
release(call) == [call EXCEPT !.client = "released", !.releases = @ + 1]

\* client.query(text) sent on the held connection
send(call, text, pc) == [call EXCEPT !.log = Append(@, text), !.pc = pc]

\* the statement sent last settles: ok, empty (ok with no rows) or failed
settle(call, reply) == [call EXCEPT !.replies = Append(@, reply)]

\* isReadOnly taking any grant that holds read
isReadOnlyAnyRead(permissions) ==
  \E i \in 1..Len(permissions) : permissions[i] = "read"

\* currentPermissions.length === 1 && currentPermissions[0] === 'read'
isReadOnly(permissions) == Len(permissions) = 1 /\ permissions[1] = "read"

errorPrefix(call) ==
  IF call.request.name = "query" THEN "SQL Error: " ELSE "Schema Error: "

\* catch without the ROLLBACK
catchNoRollback(call, error) == [call EXCEPT !.error = error, !.pc = "rollback"]

\* catch (error) { await client.query("ROLLBACK") ... }
catch(call, error) == send([call EXCEPT !.error = error], "ROLLBACK", "rollback")

\* the handler from its start to `await databaseState.pool!.connect()`
callTool(c, request) ==
  LET requestDbUrl == extractDatabaseUrlFromRequest(request)
      st == IF requestDbUrl # "" THEN initializeDatabase(dbState, requestDbUrl)
                                 ELSE dbState
      call == [calls[c] EXCEPT !.request = request]
      check == validateSqlPermissions(request.sql, currentPermissions)
  IN
  /\ setDbState(st)
  /\ UNCHANGED <<env, currentPermissions, registryVars>>
  /\ calls' = [calls EXCEPT ![c] =
       IF st.threw THEN thrown(call, dbError("Invalid URL"))
       ELSE IF requestDbUrl = "" /\ pool = 0
       THEN thrown(call, dbError("No database connection available"))
       ELSE IF request.name = "query" /\ check # NoError
       THEN returned([call EXCEPT !.checked = currentPermissions],
                     TRUE, "Permission Error: ", check)
       ELSE [call EXCEPT !.pc = "connect", !.pool = st.pool,
                         !.checked = IF request.name = "query"
                                     THEN currentPermissions ELSE << >>]]

\* the body of the post has arrived: the protocol layer calls the handler
Dispatch(c) ==
  /\ calls[c].pc = "body"
  /\ \E request \in ToolRequests : callTool(c, request)

toolFrame == <<env, dbVars, currentPermissions, registryVars>>

\* begin choosing the shape by the grant for `schema` as well
beginByGrant(call, permissions) ==
  IF ~isReadOnly(permissions)
  THEN send([call EXCEPT !.client = "held"], "BEGIN TRANSACTION", "begin")
  ELSE send([call EXCEPT !.client = "held"], "BEGIN TRANSACTION READ ONLY", "begin")

\* the try block entered with the connection: BEGIN in the shape of the grant
begin(call, permissions) ==
  IF call.request.name = "query" /\ ~isReadOnly(permissions)
  THEN send([call EXCEPT !.client = "held"], "BEGIN TRANSACTION", "begin")
  ELSE send([call EXCEPT !.client = "held"], "BEGIN TRANSACTION READ ONLY", "begin")

\* after BEGIN: the statement of `query`, the first listing of `schema`
afterBegin(call, ok) ==
  IF ~ok THEN catch(settle(call, "failed"), dbError("BEGIN failed"))
  ELSE IF call.request.name = "query" THEN send(settle(call, "ok"), "SQL", "statement")
  ELSE IF call.request.table_name # "" THEN send(settle(call, "ok"), "COLUMNS", "columns")
  ELSE send(settle(call, "ok"), "TABLES", "tables")

\* after the statement of `query`
afterStatement(call, ok) ==
  IF ~ok THEN catch(settle(call, "failed"), dbError("statement failed"))
  ELSE send(settle(call, "ok"), "COMMIT", "commit")

\* after the table listing of `schema`, which returned `rows` tables
afterTables(call, ok, rows) ==
  IF ~ok THEN catch(settle(call, "failed"), dbError("statement failed"))
  ELSE IF rows = 0 THEN send(settle(call, "empty"), "COMMIT", "commit")
  ELSE send([settle(call, "ok") EXCEPT !.todo = rows - 1], "COLUMNS", "columns")

\* after a column listing of `schema`; found: it returned at least one row
afterColumns(call, ok, found) ==
  LET reply == IF found THEN "ok" ELSE "empty" IN
  IF ~ok THEN catch(settle(call, "failed"), dbError("statement failed"))
  ELSE IF call.request.table_name # ""
  THEN IF ~found
       THEN release(returned(settle(call, reply), TRUE, "",
                             dbError("Table not found in public schema")))
       ELSE send(settle(call, reply), "COMMIT", "commit")
  ELSE IF call.todo > 0
  THEN send([settle(call, reply) EXCEPT !.todo = @ - 1], "COLUMNS", "columns")
  ELSE send(settle(call, reply), "COMMIT", "commit")

\* afterCommit with COMMIT awaited outside the try block
afterCommitThrows(call, ok) ==
  IF ~ok THEN release(thrown(settle(call, "failed"), dbError("COMMIT failed")))
  ELSE release(returned(settle(call, "ok"), FALSE, "", NoError))

\* after COMMIT
afterCommit(call, ok) ==
  IF ~ok THEN catch(settle(call, "failed"), dbError("COMMIT failed"))
  ELSE release(returned(settle(call, "ok"), FALSE, "", NoError))

\* afterRollback without .catch(() => {}): the failure of ROLLBACK replaces
\* the error being handled
afterRollbackUncaught(call, ok) ==
  IF ok THEN release(returned(settle(call, "ok"), TRUE, errorPrefix(call), call.error))
  ELSE release(returned(settle(call, "failed"), TRUE, errorPrefix(call),
                        dbError("ROLLBACK failed")))

\* after ROLLBACK: .catch(() => {}) drops its failure
afterRollback(call, ok) ==
  LET settled == settle(call, IF ok THEN "ok" ELSE "failed") IN
  release(returned(settled, TRUE, errorPrefix(call), call.error))

\* pool.connect() settles
Connected(c) ==
  /\ calls[c].pc = "connect"
  /\ UNCHANGED toolFrame
  /\ \E ok \in BOOLEAN :
       calls' = [calls EXCEPT ![c] =
         IF ~ok THEN thrown(@, dbError("connect failed"))
         ELSE IF @.request.name = "resources/list"
         THEN send([@ EXCEPT !.client = "held"], "TABLES", "listing")
         ELSE begin(@, currentPermissions)]

\* ListResources: one URI for each row of the table listing
resourceUris(rows, base) ==
  [i \in 1..rows |-> href(resolveUrl(<<"t", "schema">>, base))]

\* ListResources after its table listing: no catch, finally releases
afterListing(call, ok, rows, base) ==
  IF ~ok THEN release(thrown(settle(call, "failed"), dbError("statement failed")))
  ELSE release(returned([settle(call, "ok") EXCEPT !.uris = resourceUris(rows, base)],
                        FALSE, "", NoError))

\* the table listing of ListResources settles
ListingReply(c) ==
  /\ calls[c].pc = "listing"
  /\ UNCHANGED toolFrame
  /\ \E ok \in BOOLEAN, rows \in 0..MaxTables :
       /\ ~ok => rows = 0
       /\ calls' = [calls EXCEPT ![c] = afterListing(@, ok, rows, resourceBaseUrl)]

\* BEGIN settles
BeginReply(c) ==
  /\ calls[c].pc = "begin"
  /\ UNCHANGED toolFrame
  /\ \E ok \in BOOLEAN : calls' = [calls EXCEPT ![c] = afterBegin(@, ok)]

\* the statement of `query` settles
StatementReply(c) ==
  /\ calls[c].pc = "statement"
  /\ UNCHANGED toolFrame
  /\ \E ok \in BOOLEAN : calls' = [calls EXCEPT ![c] = afterStatement(@, ok)]

\* the table listing of `schema` settles
TablesReply(c) ==
  /\ calls[c].pc = "tables"
  /\ UNCHANGED toolFrame
  /\ \E ok \in BOOLEAN, rows \in 0..MaxTables :
       /\ ~ok => rows = 0
       /\ calls' = [calls EXCEPT ![c] = afterTables(@, ok, rows)]

\* a column listing of `schema` settles
ColumnsReply(c) ==
  /\ calls[c].pc = "columns"
  /\ UNCHANGED toolFrame
  /\ \E ok \in BOOLEAN, found \in BOOLEAN :
       /\ ~ok => ~found
       /\ calls' = [calls EXCEPT ![c] = afterColumns(@, ok, found)]

\* COMMIT settles
CommitReply(c) ==
  /\ calls[c].pc = "commit"
  /\ UNCHANGED toolFrame
  /\ \E ok \in BOOLEAN : calls' = [calls EXCEPT ![c] = afterCommit(@, ok)]

\* ROLLBACK settles
RollbackReply(c) ==
  /\ calls[c].pc = "rollback"
  /\ UNCHANGED toolFrame
  /\ \E ok \in BOOLEAN : calls' = [calls EXCEPT ![c] = afterRollback(@, ok)]

Next ==
  \/ GetSse
  \/ Preflight
  \/ GetHealth
  \/ OtherRequest
  \/ \E s \in 1..Len(transports) : CloseTransport(s)
  \/ \E c \in DOMAIN calls : PostWithId(c)
  \/ \E c \in DOMAIN calls : Dispatch(c)
  \/ \E c \in DOMAIN calls : Connected(c)
  \/ \E c \in DOMAIN calls : BeginReply(c)
  \/ \E c \in DOMAIN calls : StatementReply(c)
  \/ \E c \in DOMAIN calls : ListingReply(c)
  \/ \E c \in DOMAIN calls : TablesReply(c)
  \/ \E c \in DOMAIN calls : ColumnsReply(c)
  \/ \E c \in DOMAIN calls : CommitReply(c)
  \/ \E c \in DOMAIN calls : RollbackReply(c)

Spec == Init /\ [][Next]_vars


\* ------------------------------------------------------------------------
\* ToolSpec: one session is open and its first post has been routed (the
\* state after GET /sse?permissions=... and POST /message?sessionId=...);
\* the tool runs while preflight requests rewrite the routing context
\* ------------------------------------------------------------------------
Permissions == {"read", "ddl", "dml"}

\* every value parsePermissions can return
Grants ==
  {g \in UNION {[1..n -> Permissions] : n \in 1..3} :
     \A i, j \in 1..Len(g) : i # j => g[i] # g[j]}

\* the posts in flight: the first post of the session
RoutedCalls == {1}

RoutedInit ==
  /\ env = [MCP_SECRET |-> Secret, DATABASE_URL |-> "A"]
  /\ pool = 1
  /\ resourceBaseUrl = displayUrl("A")
  /\ currentDatabaseUrl = "A"
  /\ currentPermissions \in Grants
  /\ pools = <<[target |-> "A", ended |-> 0]>>
  /\ activeTransports = <<[key |-> 1, value |-> 1]>>
  /\ transportPermissions = <<[key |-> 1, value |-> currentPermissions]>>
  /\ transportDatabaseUrls = <<[key |-> 1, value |-> "A"]>>
  /\ transports = <<[transportId |-> 1, closed |-> FALSE, secret |-> Secret,
                     permissions |-> currentPermissions, databaseUrl |-> "A",
                     permissionsParam |-> currentPermissions]>>
  /\ calls = [c \in RoutedCalls |->
                [IdleCall EXCEPT !.pc = "body", !.sessionId = 1, !.session = 1]]

ToolNext ==
  \/ Preflight
  \/ \E c \in DOMAIN calls : Dispatch(c)
  \/ \E c \in DOMAIN calls : Connected(c)
  \/ \E c \in DOMAIN calls : BeginReply(c)
  \/ \E c \in DOMAIN calls : StatementReply(c)
  \/ \E c \in DOMAIN calls : ListingReply(c)
  \/ \E c \in DOMAIN calls : TablesReply(c)
  \/ \E c \in DOMAIN calls : ColumnsReply(c)
  \/ \E c \in DOMAIN calls : CommitReply(c)
  \/ \E c \in DOMAIN calls : RollbackReply(c)

ToolSpec == RoutedInit /\ [][ToolNext]_vars

\* every statement sent to the database, and every pool.connect(), settles
Settles ==
  /\ WF_vars(\E c \in DOMAIN calls : Connected(c))
  /\ WF_vars(\E c \in DOMAIN calls : BeginReply(c))
  /\ WF_vars(\E c \in DOMAIN calls : StatementReply(c))
  /\ WF_vars(\E c \in DOMAIN calls : TablesReply(c))
  /\ WF_vars(\E c \in DOMAIN calls : ColumnsReply(c))
  /\ WF_vars(\E c \in DOMAIN calls : CommitReply(c))
  /\ WF_vars(\E c \in DOMAIN calls : RollbackReply(c))

FairToolSpec == ToolSpec /\ Settles

\* ------------------------------------------------------------------------
\* QuerySpec: as ToolSpec, the post carrying a `query` with any statement
\* text of at most MaxSqlLen tokens
\* ------------------------------------------------------------------------
Tokens ==
  {"select", "drop", "insert", "grant", "\"t\"", ";", " ", "\n", "--", "/*", "*/"}

\* longer texts: a second statement after a semicolon, a keyword and its
\* operand with only a block comment between them, a block comment that
\* holds a line comment marker
StackedTexts ==
  {<<"select", " ", "x", ";", "drop", " ", "x">>,
   <<"drop", "/*", "*/", "x">>,
   <<"/*", "--", "*/", "insert", " ", "x">>}

SqlTexts == UNION {[1..n -> Tokens] : n \in 0..MaxSqlLen} \cup StackedTexts

DispatchQuery(c) ==
  /\ calls[c].pc = "body"
  /\ \E sql \in SqlTexts :
       callTool(c, [name |-> "query", sql |-> sql, table_name |-> "", db |-> ""])

QueryNext ==
  \/ \E c \in DOMAIN calls : DispatchQuery(c)
  \/ \E c \in DOMAIN calls : Connected(c)
  \/ \E c \in DOMAIN calls : BeginReply(c)
  \/ \E c \in DOMAIN calls : StatementReply(c)
  \/ \E c \in DOMAIN calls : CommitReply(c)
  \/ \E c \in DOMAIN calls : RollbackReply(c)

QuerySpec == RoutedInit /\ [][QueryNext]_vars

\* ------------------------------------------------------------------------
\* RaceSpec: two sessions on one target with different grants are open (the
\* state after GET /sse and GET /sse?permissions=Read, DML,read) and posts
\* race for the routing context
\* ------------------------------------------------------------------------
RaceInit ==
  /\ env = [MCP_SECRET |-> Secret, DATABASE_URL |-> "A"]
  /\ pool = 1
  /\ resourceBaseUrl = displayUrl("A")
  /\ currentDatabaseUrl = "A"
  /\ currentPermissions = <<"read", "dml">>
  /\ pools = <<[target |-> "A", ended |-> 0]>>
  /\ activeTransports = <<[key |-> 1, value |-> 1], [key |-> 2, value |-> 2]>>
  /\ transportPermissions =
       <<[key |-> 1, value |-> <<"read">>], [key |-> 2, value |-> <<"read", "dml">>]>>
  /\ transportDatabaseUrls = <<[key |-> 1, value |-> "A"], [key |-> 2, value |-> "A"]>>
  /\ transports =
       <<[transportId |-> 1, closed |-> FALSE, secret |-> Secret, permissions |-> <<"read">>,
          databaseUrl |-> "A", permissionsParam |-> <<"read">>],
         [transportId |-> 2, closed |-> FALSE, secret |-> Secret, permissions |-> <<"read", "dml">>,
          databaseUrl |-> "A", permissionsParam |-> <<"read", "dml">>]>>
  /\ calls = [c \in 1..MaxRacing |-> IdleCall]

RaceNext ==
  \/ \E c \in DOMAIN calls : PostMessage(c)
  \/ \E c \in DOMAIN calls : Dispatch(c)
  \/ \E c \in DOMAIN calls : Connected(c)
  \/ \E c \in DOMAIN calls : BeginReply(c)
  \/ \E c \in DOMAIN calls : StatementReply(c)
  \/ \E c \in DOMAIN calls : ListingReply(c)
  \/ \E c \in DOMAIN calls : TablesReply(c)
  \/ \E c \in DOMAIN calls : ColumnsReply(c)
  \/ \E c \in DOMAIN calls : CommitReply(c)
  \/ \E c \in DOMAIN calls : RollbackReply(c)

RaceSpec == RaceInit /\ [][RaceNext]_vars

\* ------------------------------------------------------------------------
\* The registry alone: sessions opened and closed and posts routed, the
\* handlers of the posted requests left out
\* ------------------------------------------------------------------------
RegistryNext ==
  \/ getSse(MaxOpened)
  \/ \E s \in 1..Len(transports) : CloseTransport(s)
  \/ \E c \in DOMAIN calls : PostMessage(c)

RegistrySpec == Init /\ [][RegistryNext]_vars

\* ------------------------------------------------------------------------
\* Stream establishment with every `permissions` parameter of up to
\* MaxTokens comma-separated tokens.  "" is the token between two adjacent
\* commas and " " a blank token; the parameter that is one empty token is
\* the empty parameter << >>
\* ------------------------------------------------------------------------
PermissionTokens ==
  {"read", "ddl", "Read", " DML", "bogus", "", " "}
PermissionTexts ==
  {t \in UNION {[1..n -> PermissionTokens] : n \in 0..MaxTokens} : t # <<"">>}

GrantedSse ==
  \E db \in {"", "B"}, permissionsParam \in PermissionTexts :
    /\ handleHttpRequest("GET", "/sse", env.MCP_SECRET, db, permissionsParam).open
         => Len(transports) < MaxSessions
    /\ httpRequest("GET", "/sse", env.MCP_SECRET, db, permissionsParam)

GrantNext ==
  \/ GrantedSse
  \/ \E c \in DOMAIN calls : PostMessage(c)

\* the server started with a secret and a DATABASE_URL
GrantInit ==
  /\ Init
  /\ env = [MCP_SECRET |-> Secret, DATABASE_URL |-> "A"]

GrantSpec == GrantInit /\ [][GrantNext]_vars

\* ------------------------------------------------------------------------
\* stdio mode (index.ts runServer, else branch): the server is connected to
\* a StdioServerTransport and nothing else runs at start; the requests read
\* from stdin reach the handlers with no session and no routing step
\* ------------------------------------------------------------------------
StdioInit ==
  /\ env \in [MCP_SECRET : {""}, DATABASE_URL : {"", "A"}]
  /\ pool = 0
  /\ resourceBaseUrl = NullUrl
  /\ currentDatabaseUrl = Null
  /\ currentPermissions = <<"read">>
  /\ pools = << >>
  /\ activeTransports = << >>
  /\ transportPermissions = << >>
  /\ transportDatabaseUrls = << >>
  /\ transports = << >>
  /\ calls = [c \in 1..MaxRacing |-> [IdleCall EXCEPT !.pc = "body"]]

StdioNext ==
  \/ \E c \in DOMAIN calls : Dispatch(c)
  \/ \E c \in DOMAIN calls : Connected(c)
  \/ \E c \in DOMAIN calls : BeginReply(c)
  \/ \E c \in DOMAIN calls : StatementReply(c)
  \/ \E c \in DOMAIN calls : ListingReply(c)
  \/ \E c \in DOMAIN calls : TablesReply(c)
  \/ \E c \in DOMAIN calls : ColumnsReply(c)
  \/ \E c \in DOMAIN calls : CommitReply(c)
  \/ \E c \in DOMAIN calls : RollbackReply(c)

StdioSpec == StdioInit /\ [][StdioNext]_vars

\* ------------------------------------------------------------------------
\* Requests serviced one at a time: an HTTP request is handled only while no
\* posted request is being executed, and no call carries an in-band target
\* ------------------------------------------------------------------------
SerialInit ==
  /\ env = [MCP_SECRET |-> Secret, DATABASE_URL |-> "A"]
  /\ pool = 0
  /\ resourceBaseUrl = NullUrl
  /\ currentDatabaseUrl = Null
  /\ currentPermissions = <<"read">>
  /\ pools = << >>
  /\ activeTransports = << >>
  /\ transportPermissions = << >>
  /\ transportDatabaseUrls = << >>
  /\ transports = << >>
  /\ calls = [c \in 1..MaxCalls |-> IdleCall]

\* no posted request is between its routing and its completion
quiet == \A c \in DOMAIN calls : calls[c].pc \in {"idle", "done"}

SerialSse == quiet /\ getSse(MaxOpened)

SerialPreflight == quiet /\ Preflight

SerialPost(c) == quiet /\ PostMessage(c)

SerialDispatch(c) ==
  /\ calls[c].pc = "body"
  /\ \E request \in ToolRequests :
       /\ extractDatabaseUrlFromRequest(request) = ""
       /\ callTool(c, request)

SerialNext ==
  \/ SerialSse
  \/ SerialPreflight
  \/ \E c \in DOMAIN calls : SerialPost(c)
  \/ \E c \in DOMAIN calls : SerialDispatch(c)
  \/ \E c \in DOMAIN calls : Connected(c)
  \/ \E c \in DOMAIN calls : BeginReply(c)
  \/ \E c \in DOMAIN calls : StatementReply(c)
  \/ \E c \in DOMAIN calls : ListingReply(c)
  \/ \E c \in DOMAIN calls : TablesReply(c)
  \/ \E c \in DOMAIN calls : ColumnsReply(c)
  \/ \E c \in DOMAIN calls : CommitReply(c)
  \/ \E c \in DOMAIN calls : RollbackReply(c)

SerialSpec == SerialInit /\ [][SerialNext]_vars

\* ------------------------------------------------------------------------
\* Sessions opened and closed while posted `query` calls are routed and
\* executed, in-band targets included, in any interleaving
\* ------------------------------------------------------------------------
SessionDispatch(c) ==
  /\ calls[c].pc = "body"
  /\ \E request \in ToolRequests :
       /\ request.name = "query"
       /\ callTool(c, request)

SessionNext ==
  \/ getSse(MaxOpened)
  \/ \E s \in 1..Len(transports) : CloseTransport(s)
  \/ \E c \in DOMAIN calls : PostMessage(c)
  \/ \E c \in DOMAIN calls : SessionDispatch(c)
  \/ \E c \in DOMAIN calls : Connected(c)
  \/ \E c \in DOMAIN calls : BeginReply(c)
  \/ \E c \in DOMAIN calls : StatementReply(c)
  \/ \E c \in DOMAIN calls : CommitReply(c)
  \/ \E c \in DOMAIN calls : RollbackReply(c)

SessionSpec == GrantInit /\ [][SessionNext]_vars

\* ------------------------------------------------------------------------
\* Properties
\* ------------------------------------------------------------------------
isQuery(c) == calls[c].request.name = "query"
isSchema(c) == calls[c].request.name = "schema"

\* the handler of call c has started
started(c) == calls[c].pc \notin {"idle", "body"}

\* the handler of call c got as far as validateSqlPermissions
validated(c) == isQuery(c) /\ calls[c].checked # << >>

\* the category of a statement that is not empty
category(sql) ==
  IF isDdl(cleanSql(sql)) THEN "ddl"
  ELSE IF isDml(cleanSql(sql)) THEN "dml" ELSE "read"

denial(cat) ==
  CASE cat = "ddl" -> "DDL operations not permitted"
    [] cat = "dml" -> "DML operations not permitted"
    [] OTHER -> "Read operations not permitted"

\* call c ended with a tool result saying isError, and with nothing else
errorResult(c) ==
  /\ calls[c].pc = "done"
  /\ calls[c].result.kind = "returned"
  /\ calls[c].result.isError
  /\ calls[c].returns = 1

\* call c never had a connection and sent nothing
untouched(c) ==
  /\ calls[c].pool = 0
  /\ calls[c].client = "none"
  /\ calls[c].log = << >>

\* C1: a query whose statement falls in a category the grant in effect at
\* the check does not hold ends with an isError result that names the
\* category and that grant; no connection was acquired and nothing was sent
C1_DeniedCategory ==
  \A c \in DOMAIN calls :
    (/\ validated(c)
     /\ cleanSql(calls[c].request.sql) # << >>
     /\ ~includes(calls[c].checked, category(calls[c].request.sql)))
    => /\ errorResult(c)
       /\ calls[c].result.prefix = "Permission Error: "
       /\ calls[c].result.message.kind = denial(category(calls[c].request.sql))
       /\ calls[c].result.message.grant = calls[c].checked
       /\ untouched(c)

\* an INSERT was denied under a grant that holds read and ddl only
C1_Witness ==
  \E c \in DOMAIN calls :
    /\ calls[c].pc = "done"
    /\ calls[c].request.sql = <<"insert", " ", "select">>
    /\ calls[c].checked = <<"read", "ddl">>
    /\ calls[c].result.message.kind = "DML operations not permitted"

\* C10: a query whose statement is empty once line comments, block comments
\* and whitespace are stripped ends with the empty-statement error under
\* every grant: it is not classified as a read and nothing is executed
C10_EmptyStatement ==
  \A c \in DOMAIN calls :
    (isQuery(c) /\ started(c) /\ cleanSql(calls[c].request.sql) = << >>)
    => /\ errorResult(c)
       /\ calls[c].result.prefix = "Permission Error: "
       /\ calls[c].result.message.kind = "Empty query not allowed"
       /\ untouched(c)

\* a statement made of a block comment and a line break was rejected under
\* a grant that holds read
C10_Witness ==
  \E c \in DOMAIN calls :
    /\ calls[c].pc = "done"
    /\ calls[c].request.sql = <<"/*", "*/", "\n">>
    /\ includes(currentPermissions, "read")
    /\ calls[c].result.message.kind = "Empty query not allowed"

\* the range of a list
range(list) == {list[i] : i \in 1..Len(list)}

BeginStatements == {"BEGIN TRANSACTION", "BEGIN TRANSACTION READ ONLY"}

\* call c got a connection from a pool
acquired(c) == calls[c].client # "none"

\* the i-th statement call c sent has failed
failedAt(c, i) ==
  i \in 1..Len(calls[c].replies) /\ calls[c].replies[i] = "failed"

\* BEGIN, the statement or COMMIT of call c has failed
dbFailed(c) ==
  \E i \in 1..Len(calls[c].log) : failedAt(c, i) /\ calls[c].log[i] # "ROLLBACK"

\* ROLLBACK of call c has failed
rollbackFailed(c) ==
  \E i \in 1..Len(calls[c].log) : failedAt(c, i) /\ calls[c].log[i] = "ROLLBACK"

queryTransaction ==
  \A c \in DOMAIN calls :
    (isQuery(c) /\ acquired(c)) =>
      LET call == calls[c] IN
      /\ Len(call.log) >= 1 /\ call.log[1] \in BeginStatements
      /\ \A i \in 1..Len(call.log) :
           /\ call.log[i] \in BeginStatements => i = 1
           /\ call.log[i] = "SQL" => i = 2 /\ call.replies[1] = "ok"
           /\ call.log[i] = "COMMIT" =>
                i = 3 /\ call.log[2] = "SQL" /\ call.replies[2] = "ok"
           /\ call.log[i] = "ROLLBACK" => i = Len(call.log) /\ failedAt(c, i - 1)
      /\ dbFailed(c) => call.log[Len(call.log)] = "ROLLBACK"
      /\ call.releases = (IF call.pc = "done" THEN 1 ELSE 0)
      /\ call.client = (IF call.pc = "done" THEN "released" ELSE "held")

C6_QueryTransaction ==
  /\ []queryTransaction
  /\ \A c \in RoutedCalls :
       (isQuery(c) /\ calls[c].client = "held") ~> (calls[c].client = "released")

\* a query whose COMMIT failed has attempted ROLLBACK and released
C6_Witness ==
  \E c \in DOMAIN calls :
    /\ isQuery(c)
    /\ calls[c].log = <<"BEGIN TRANSACTION", "SQL", "COMMIT", "ROLLBACK">>
    /\ failedAt(c, 3)
    /\ calls[c].client = "released"

\* C7: whenever query or schema has released its connection, the
\* transaction it began was ended by a COMMIT or by a ROLLBACK attempt
C7_TransactionEnded ==
  \A c \in DOMAIN calls :
    ((isQuery(c) \/ isSchema(c)) /\ calls[c].client = "released") =>
      \E i \in 1..Len(calls[c].log) : calls[c].log[i] \in {"COMMIT", "ROLLBACK"}

\* C8: when BEGIN, the statement or COMMIT fails and the ROLLBACK fails as
\* well, the result carries the message of the first failure, and the
\* connection is released
C8_RollbackFailure ==
  \A c \in DOMAIN calls :
    rollbackFailed(c) =>
      /\ errorResult(c)
      /\ calls[c].result.prefix = errorPrefix(calls[c])
      /\ calls[c].result.message.kind \in
           {"BEGIN failed", "statement failed", "COMMIT failed"}
      /\ calls[c].result.message = calls[c].error
      /\ \E i \in 1..Len(calls[c].log) :
           /\ failedAt(c, i)
           /\ calls[c].log[i + 1] = "ROLLBACK"
           /\ calls[c].result.message.kind =
                (IF calls[c].log[i] \in BeginStatements THEN "BEGIN failed"
                 ELSE IF calls[c].log[i] = "COMMIT" THEN "COMMIT failed"
                 ELSE "statement failed")
      /\ calls[c].client = "released"
      /\ calls[c].releases = 1

\* the statement of a query failed and so did the ROLLBACK
C8_Witness ==
  \E c \in DOMAIN calls :
    /\ isQuery(c)
    /\ calls[c].log = <<"BEGIN TRANSACTION READ ONLY", "SQL", "ROLLBACK">>
    /\ calls[c].replies = <<"ok", "failed", "failed">>
    /\ calls[c].pc = "done"

\* the named table of call c has no column in the public schema
unknownTable(c) ==
  /\ isSchema(c)
  /\ calls[c].request.table_name # ""
  /\ \E i \in 1..Len(calls[c].replies) :
       calls[c].log[i] = "COLUMNS" /\ calls[c].replies[i] = "empty"

\* the statement of call c was refused by validateSqlPermissions
refused(c) ==
  /\ validated(c)
  /\ \/ cleanSql(calls[c].request.sql) = << >>
     \/ ~includes(calls[c].checked, category(calls[c].request.sql))

\* C9: a permission denial, an empty statement, a failure of BEGIN, of the
\* statement or of COMMIT, and an unknown table each end the call with one
\* tool result whose isError is true: nothing is thrown, and no result is
\* produced before the handler's exit
C9_FailuresReturned ==
  \A c \in DOMAIN calls :
    /\ (refused(c) \/ unknownTable(c)) => errorResult(c)
    /\ ((isQuery(c) \/ isSchema(c)) /\ dbFailed(c) /\ calls[c].pc = "done")
         => errorResult(c)
    /\ calls[c].returns = (IF calls[c].pc = "done" THEN 1 ELSE 0)
    /\ calls[c].pc # "done" => calls[c].result = NoResult

\* a schema call whose COMMIT failed has returned an error result
C9_Witness ==
  \E c \in DOMAIN calls :
    /\ isSchema(c)
    /\ calls[c].pc = "done"
    /\ \E i \in 1..Len(calls[c].log) : calls[c].log[i] = "COMMIT" /\ failedAt(c, i)
    /\ calls[c].result.prefix = "Schema Error: "

\* call c arrived as a post carrying the id of a session
addressed(c) == calls[c].pc # "idle" /\ calls[c].sessionId > 0

\* C2: a query posted with the id of session S is checked against the
\* grant stored for S when S was opened
C2_StoredGrant ==
  \A c \in DOMAIN calls :
    (addressed(c) /\ validated(c))
    => calls[c].checked = transports[calls[c].session].permissions

\* C3: a query or schema call posted with the id of session S and without
\* an in-band target takes its connection from a pool built for the target
\* stored for S
C3_StoredTarget ==
  \A c \in DOMAIN calls :
    (addressed(c) /\ started(c) /\ calls[c].request.db = "" /\ calls[c].pool # 0)
    => pools[calls[c].pool].target = transports[calls[c].session].databaseUrl

\* C4: while a routed post has not completed, no other post is routed
C4_NoOtherPost ==
  [][\A c, d \in DOMAIN calls :
       (c # d /\ calls[c].pc \notin {"idle", "done"})
       => ~(calls[d].pc = "idle" /\ calls'[d].pc = "body")]_vars

\* the words of a text in upper case; every other token is punctuation,
\* white space or a comment marker
Words == {"SELECT", "DROP", "INSERT", "GRANT", "X"}

\* the leading keyword of a text: its first word, "" when it starts with
\* something else or with a longer word
leadingWord(text) ==
  IF text # << >> /\ text[1] \in Words /\ (Len(text) >= 2 => text[2] \notin Words)
  THEN text[1] ELSE ""

\* C11: a text that is not empty once cleaned is ddl when the leading
\* keyword of the cleaned text is CREATE, DROP, ALTER, TRUNCATE or COMMENT,
\* dml when it is INSERT, UPDATE, DELETE, MERGE or UPSERT, read otherwise,
\* and never both ddl and dml
C11_Classification ==
  \A c \in DOMAIN calls :
    (isQuery(c) /\ started(c) /\ cleanSql(calls[c].request.sql) # << >>) =>
      LET clean == cleanSql(calls[c].request.sql)
          kw == leadingWord(clean)
      IN  /\ isDdl(clean) <=> kw \in ddlPatterns
          /\ isDml(clean) <=> kw \in dmlPatterns
          /\ ~(isDdl(clean) /\ isDml(clean))

\* call c has sent its statement to the database
executed(c) ==
  \E i \in 1..Len(calls[c].log) : calls[c].log[i] = "SQL"

\* C12: under a grant that is exactly {read}, a statement is sent to the
\* database only when its leading keyword is SELECT
C12_OnlySelect ==
  \A c \in DOMAIN calls :
    (isQuery(c) /\ calls[c].checked = <<"read">> /\ executed(c))
    => leadingWord(cleanSql(calls[c].request.sql)) = "SELECT"

\* the text as the database reads it, left to right: a line comment runs to
\* the line end, a block comment to its closer, and each counts as white
\* space; "?" stands for what the database rejects (a block comment left
\* open or opened inside another, a closer outside a comment)
RECURSIVE dbScan(_, _)
dbScan(s, mode) ==
  IF s = << >> THEN (IF mode = "block" THEN <<"?">> ELSE << >>)
  ELSE IF mode = "line"
  THEN IF Head(s) = "\n" THEN <<"\n">> \o dbScan(Tail(s), "text")
       ELSE dbScan(Tail(s), "line")
  ELSE IF mode = "block"
  THEN IF Head(s) = "*/" THEN dbScan(Tail(s), "text")
       ELSE IF Head(s) = "/*" THEN <<"?">>
       ELSE dbScan(Tail(s), "block")
  ELSE IF Head(s) = "--" THEN <<" ">> \o dbScan(Tail(s), "line")
  ELSE IF Head(s) = "/*" THEN <<" ">> \o dbScan(Tail(s), "block")
  ELSE IF Head(s) = "*/" THEN <<"?">>
  ELSE <<Head(s)>> \o dbScan(Tail(s), "text")

\* the statements of a text: its parts between semicolons
RECURSIVE statements(_, _)
statements(s, current) ==
  IF s = << >> THEN {current}
  ELSE IF Head(s) = ";" THEN {current} \cup statements(Tail(s), << >>)
  ELSE statements(Tail(s), Append(current, Head(s)))

\* a statement operates when a keyword leads it and an operand follows
operates(statement, keywords) ==
  LET t == trimStart(statement) IN
  /\ leadingWord(t) \in keywords
  /\ \E i \in 2..Len(t) : t[i] \in Words \cup {"\"T\""}

\* the categories of the DDL and DML operations the database performs when
\* it is handed the text
performs(sql) ==
  LET text == dbScan(upper(sql), "text") IN
  IF "?" \in range(text) THEN {}
  ELSE {cat \in {"ddl", "dml"} :
          \E st \in statements(text, << >>) :
            operates(st, IF cat = "ddl" THEN ddlPatterns ELSE dmlPatterns)}

\* C13: a query whose text makes the database perform a DDL or DML
\* operation of a category missing from the grant is rejected, wherever in
\* the text the operation stands
C13_HiddenOperation ==
  \A c \in DOMAIN calls :
    (validated(c) /\ \E cat \in performs(calls[c].request.sql) :
                       ~includes(calls[c].checked, cat))
    => errorResult(c) /\ untouched(c)

\* C14: a schema call is never checked against the grant and never ends
\* with a permission error, and the transaction it begins is READ ONLY,
\* under every grant
C14_SchemaReadOnly ==
  \A c \in DOMAIN calls :
    (isSchema(c) /\ started(c)) =>
      /\ calls[c].checked = << >>
      /\ calls[c].result.prefix # "Permission Error: "
      /\ (calls[c].pc = "done" /\ ~acquired(c)) => calls[c].result.kind = "thrown"
      /\ acquired(c) => calls[c].log[1] = "BEGIN TRANSACTION READ ONLY"
      /\ \A i \in 1..Len(calls[c].log) : calls[c].log[i] # "BEGIN TRANSACTION"

\* a schema call runs in a READ ONLY transaction under the grant {ddl}
C14_Witness ==
  \E c \in DOMAIN calls :
    /\ isSchema(c)
    /\ currentPermissions = <<"ddl">>
    /\ calls[c].log = <<"BEGIN TRANSACTION READ ONLY", "TABLES">>

\* initializeDatabase called once and twice with the current identity
\* leaves databaseState as it is
repeatedIdentity ==
  (pool # 0 /\ currentDatabaseUrl # Null) =>
    LET once == initializeDatabase(dbState, currentDatabaseUrl)
        twice == initializeDatabase(once, currentDatabaseUrl)
    IN  once = dbState /\ twice = dbState

\* C15: initializeDatabase called with the identity that is current while a
\* pool exists ends no pool and constructs none: pool, current target and
\* display URL stay as they are, in every reachable state and in every
\* routing of a post to a session whose target is the current one
C15_Idempotent ==
  /\ []repeatedIdentity
  /\ [][\A c \in DOMAIN calls :
          (/\ calls[c].pc = "idle" /\ calls'[c].pc = "body"
           /\ pool # 0
           /\ transports[calls'[c].session].databaseUrl = currentDatabaseUrl)
          => UNCHANGED dbVars]_vars

\* a post was routed to the session that opened the only pool, and that
\* pool is still the current one and has not been ended
C15_Witness ==
  \E c \in DOMAIN calls :
    /\ calls[c].pc = "body"
    /\ pool = 1
    /\ Len(pools) = 1
    /\ pools[1].ended = 0
    /\ transports[calls[c].session].databaseUrl = currentDatabaseUrl

\* C16: at most one pool is constructed and not ended: every pool but the
\* current one has had end() called exactly once, and the current pool,
\* the one constructed last, has not been ended
C16_OneLivePool ==
  /\ Cardinality({i \in 1..Len(pools) : pools[i].ended = 0}) <= 1
  /\ pool = Len(pools)
  /\ \A i \in 1..Len(pools) : pools[i].ended = (IF i = pool THEN 0 ELSE 1)

\* a switch of target has superseded the first pool
C16_Witness ==
  /\ Len(pools) = 2
  /\ pools[1].ended = 1
  /\ pools[1].target # pools[2].target
  /\ isUrl(pools[2].target)
  /\ pool = 2

\* C17: initializeDatabase called with a malformed identity while a pool
\* exists throws and leaves pool, current target and display URL as they
\* were, without ending the pool
C17_MalformedIdentity ==
  pool # 0 =>
    LET st == initializeDatabase(dbState, "bad") IN
    /\ st.threw
    /\ st.pool = pool
    /\ st.pools = pools
    /\ st.currentDatabaseUrl = currentDatabaseUrl
    /\ st.resourceBaseUrl = resourceBaseUrl

\* the user names and passwords embedded in the target identities
Credentials ==
  UNION {{urlUsername(u), urlPassword(u)} : u \in {u \in DatabaseUrls : isUrl(u)}}

\* C18: neither resourceBaseUrl nor a resource URI returned by ListResources
\* contains a user name or a password of a target identity
C18_NoCredentials ==
  /\ range(href(resourceBaseUrl)) \cap Credentials = {}
  /\ \A c \in DOMAIN calls :
       \A i \in 1..Len(calls[c].uris) :
         range(calls[c].uris[i]) \cap Credentials = {}

\* the requests the secret check applies to, with and without parameters
GatedRequests ==
  {r \in [method : {"GET", "POST"}, path : {"/sse", "/other"},
          secret : SecretParams, db : {"", "B"},
          permissionsParam : {<< >>, <<"Read", " DML", "read">>}] :
     gated(r.method, r.path)}

\* C19: a request the secret check applies to is answered 500 when no
\* secret is configured and 401 when its secret is absent or wrong, and
\* in both cases opens no session and leaves databaseState alone; every
\* transport was opened by a request that presented the configured secret
C19_SecretGate ==
  /\ \A r \in GatedRequests :
       LET out == handleHttpRequest(r.method, r.path, r.secret, r.db,
                                    r.permissionsParam)
       IN  /\ env.MCP_SECRET = "" =>
                out.response.status = 500 /\ ~out.open /\ out.st = dbState
           /\ (env.MCP_SECRET # "" /\ r.secret # env.MCP_SECRET) =>
                out.response.status = 401 /\ ~out.open /\ out.st = dbState
  /\ \A i \in 1..Len(transports) :
       env.MCP_SECRET # "" /\ transports[i].secret = env.MCP_SECRET

\* a session is open, and a request for a second one with a wrong secret
\* is answered 401
C19_Witness ==
  /\ Len(transports) = 1
  /\ transports[1].secret = Secret
  /\ handleHttpRequest("GET", "/sse", "wrong", "B", << >>).response.status = 401

\* C20: a post is handed to a session only when it carries the id of that
\* session, which is open at that moment; a post without a session id is
\* handed to none
C20_SessionIdRequired ==
  \A c \in DOMAIN calls :
    calls[c].pc # "idle" =>
      /\ calls[c].sessionId > 0
      /\ calls[c].session = calls[c].sessionId

\* C21: a post that supplies a session id is handed to the session of that
\* id or to none: it never falls back to another open session
C21_NoFallback ==
  \A c \in DOMAIN calls :
    (calls[c].pc # "idle" /\ calls[c].sessionId # 0) =>
      calls[c].session = calls[c].sessionId

\* the session with id s has an entry in the registry
registered(s) ==
  \E i \in 1..Len(activeTransports) : activeTransports[i].value = s

\* C22: once the close notification of a session has run, the session has
\* no entry in the registry and a post carrying its id is answered 404 and
\* handed to no transport; no post is ever handed to a closed session; a
\* close notification for an id that is not in the registry (a second one
\* for the same session included) changes nothing
C22_ClosedSession ==
  /\ [](\A s \in 1..Len(transports) :
          transports[s].closed =>
            /\ ~registered(s)
            /\ postTarget(s) = 0
            /\ postResponse(s).status = 404)
  /\ [][\A c \in DOMAIN calls :
          (calls[c].pc = "idle" /\ calls'[c].pc # "idle") =>
            ~transports[calls'[c].session].closed]_vars
  /\ [][\A s \in 1..Len(transports) :
          (CloseTransport(s) /\ ~mapHas(activeTransports, transports[s].transportId))
            => UNCHANGED <<activeTransports, transportPermissions,
                           transportDatabaseUrls, dbVars, currentPermissions,
                           calls>>]_vars

\* one session closed, its id no longer routable, while another is open
C22_Witness ==
  /\ Len(transports) = 2
  /\ transports[1].closed /\ ~registered(1)
  /\ ~transports[2].closed /\ registered(2)

\* C23: the sessions established have pairwise distinct registry ids, and
\* every session that has not been closed still has its own entry: its
\* channel, its grant and its target
C23_DistinctIds ==
  /\ \A s, t \in 1..Len(transports) :
       s # t => transports[s].transportId # transports[t].transportId
  /\ \A s \in 1..Len(transports) :
       ~transports[s].closed =>
         /\ mapHas(activeTransports, transports[s].transportId)
         /\ mapGet(activeTransports, transports[s].transportId) = s
         /\ mapGet(transportPermissions, transports[s].transportId)
              = transports[s].permissions
         /\ mapGet(transportDatabaseUrls, transports[s].transportId)
              = transports[s].databaseUrl

\* the permission a token of the parameter stands for, "" when it is none
denotes(t) ==
  IF t \in {"read", "Read"} THEN "read"
  ELSE IF t \in {"ddl", "DDL "} THEN "ddl"
  ELSE IF t \in {"dml", " DML"} THEN "dml"
  ELSE ""

\* the position of the first token of the parameter that stands for p
firstOccurrence(param, p) ==
  CHOOSE i \in 1..Len(param) :
    /\ denotes(param[i]) = p
    /\ \A j \in 1..(i - 1) : denotes(param[j]) # p

\* the list is the permissions the tokens stand for, each once, in the order
\* of their first occurrence
inFirstOccurrenceOrder(list, param) ==
  /\ Len(list) > 0
  /\ \A i \in 1..Len(list) : list[i] \in Permissions
  /\ \A i, j \in 1..Len(list) : i # j => list[i] # list[j]
  /\ {list[i] : i \in 1..Len(list)} = {denotes(param[i]) : i \in 1..Len(param)}
  /\ \A i, j \in 1..Len(list) :
       i < j => firstOccurrence(param, list[i]) < firstOccurrence(param, list[j])

\* what the claim requires of parsePermissions for one parameter
parsedAsClaimed(param) ==
  LET r == parsePermissions(param) IN
  IF param = << >> THEN ~r.threw /\ r.value = <<"read">>
  ELSE IF \E i \in 1..Len(param) : denotes(param[i]) = "" THEN r.threw
  ELSE ~r.threw /\ inFirstOccurrenceOrder(r.value, param)

\* C24: parsePermissions returns [read] for an absent or empty parameter,
\* an error for a parameter with any unknown token, and otherwise the
\* non-empty duplicate-free list of the permissions its tokens stand for
\* (case-insensitively, trimmed) in first-occurrence order; the grant
\* registered for every session is that list
C24_ParsePermissions ==
  /\ \A param \in PermissionTexts : parsedAsClaimed(param)
  /\ \A s \in 1..Len(transports) :
       /\ parsedAsClaimed(transports[s].permissionsParam)
       /\ transports[s].permissions
            = parsePermissions(transports[s].permissionsParam).value
       /\ transports[s].permissions \in Grants

\* a session opened with permissions= DML,Read, DML and granted [dml, read]
C24_Witness ==
  /\ Len(transports) = 1
  /\ transports[1].permissionsParam = <<" DML", "Read", " DML">>
  /\ transports[1].permissions = <<"dml", "read">>

\* the parameter has a token that stands for no permission
hasUnknownToken(param) == \E i \in 1..Len(param) : denotes(param[i]) = ""

\* C25: a stream-establishment request whose `permissions` parameter has a
\* token outside {read, ddl, dml} is answered 400, opens no session and
\* leaves the pool, the current target and the current grant as they were;
\* no session was opened by such a request
C25_InvalidToken ==
  /\ \A param \in PermissionTexts, db \in DbParams :
       hasUnknownToken(param) =>
         LET out == handleHttpRequest("GET", "/sse", env.MCP_SECRET, db, param)
         IN  /\ out.response.status = 400
             /\ ~out.open
             /\ out.st = dbState
             /\ out.permissions = currentPermissions
  /\ \A s \in 1..Len(transports) :
       ~hasUnknownToken(transports[s].permissionsParam)

\* a pool on A and the grant [dml, read] are current when a request for
\* another target with an unknown token is refused
C25_Witness ==
  /\ pool # 0 /\ currentDatabaseUrl = "A"
  /\ currentPermissions = <<"dml", "read">>
  /\ handleHttpRequest("GET", "/sse", env.MCP_SECRET, "B",
                       <<"read", "bogus">>).response.status = 400

\* C26: GET /health is answered 200 in every state, whatever secret, db and
\* permissions parameters it carries or lacks, also when no target identity
\* can be resolved
C26_HealthAlways ==
  \A p \in requestParams("GET", "/health") :
    handleHttpRequest("GET", "/health", p[1], p[2], p[3]).response.status = 200

\* C27: a call with an in-band target takes its connection from a pool for
\* that target, and a call without one that starts when every other call
\* has completed takes it from a pool for the configured target, whatever
\* the earlier calls carried
C27_SingleCallOverride ==
  \A c \in DOMAIN calls :
    (started(c) /\ calls[c].pool # 0) =>
      IF calls[c].request.db # ""
      THEN pools[calls[c].pool].target = calls[c].request.db
      ELSE (\A d \in DOMAIN calls \ {c} : calls[d].pc = "done")
             => pools[calls[c].pool].target = env.DATABASE_URL

\* C29: in stdio mode with a database URL configured, a call without an
\* in-band target that has completed was executed on a pool for that URL
C29_StdioTarget ==
  \A c \in DOMAIN calls :
    (env.DATABASE_URL # "" /\ calls[c].pc = "done" /\ calls[c].request.db = "")
      => /\ calls[c].pool # 0
         /\ pools[calls[c].pool].target = env.DATABASE_URL

\* C28: every response of handleHttpRequest carries the header
\* Access-Control-Allow-Origin, whatever the method, the path and the
\* parameters of the request
C28_CorsEverywhere ==
  /\ \A method \in {"GET", "OPTIONS"}, path \in {"/sse", "/health", "/other"} :
       \A p \in requestParams(method, path) :
         handleHttpRequest(method, path, p[1], p[2], p[3]).response.cors
  /\ \A sessionId \in (-1)..(Len(transports) + 1) : postResponse(sessionId).cors

\* call c is a post without a session id that this step hands to a session
fallsBack(c) ==
  calls[c].pc = "idle" /\ calls'[c].pc = "body" /\ calls'[c].sessionId <= 0

\* the least element of a non-empty set of session ids
earliest(S) == CHOOSE s \in S : \A t \in S : s <= t

distinctIds ==
  \A s, t \in 1..Len(transports) :
    s # t => transports[s].transportId # transports[t].transportId

C31_SerialRouting ==
  \A c \in DOMAIN calls :
    (addressed(c) /\ validated(c)) =>
      /\ calls[c].checked = transports[calls[c].session].permissions
      /\ calls[c].pool # 0 =>
           pools[calls[c].pool].target = transports[calls[c].session].databaseUrl

\* the registry id of session s
idOf(s) == transports[s].transportId

C33_SameGrant ==
  \A c \in DOMAIN calls :
    (isQuery(c) /\ validated(c) /\ calls[c].log # << >>) =>
      (calls[c].log[1] = "BEGIN TRANSACTION READ ONLY"
         <=> range(calls[c].checked) = {"read"})

\* C34: an OPTIONS request and a request to /health leave the pool, the
\* current target and the current grant as they were, whatever db and
\* permissions parameters they carry
C34_ExemptRequests ==
  \A r \in {<<"OPTIONS", "/sse">>, <<"GET", "/health">>} :
    \A p \in requestParams(r[1], r[2]) :
      LET out == handleHttpRequest(r[1], r[2], p[1], p[2], p[3]) IN
      /\ out.st = dbState
      /\ out.permissions = currentPermissions

\* C35: pool, currentDatabaseUrl and resourceBaseUrl are all null or all
\* set, and when set the pool is the one constructed for currentDatabaseUrl
\* and resourceBaseUrl is the display form of currentDatabaseUrl
C35_Consistent ==
  IF pool = 0
  THEN currentDatabaseUrl = Null /\ resourceBaseUrl = NullUrl
  ELSE /\ currentDatabaseUrl # Null
       /\ pools[pool].target = currentDatabaseUrl
       /\ resourceBaseUrl = displayUrl(currentDatabaseUrl)

\* C36: the three registry maps have the same keys, each key once, so every
\* registered session has a stored grant and a stored target and no grant
\* or target is stored under an id that has no transport
C36_SameKeys ==
  /\ mapKeys(transportPermissions) = mapKeys(activeTransports)
  /\ mapKeys(transportDatabaseUrls) = mapKeys(activeTransports)
  /\ Len(activeTransports) = Cardinality(mapKeys(activeTransports))
  /\ Len(transportPermissions) = Cardinality(mapKeys(transportPermissions))
  /\ Len(transportDatabaseUrls) = Cardinality(mapKeys(transportDatabaseUrls))
  /\ \A s \in 1..Len(transports) :
       registered(s) =>
         /\ mapHas(transportPermissions, idOf(s))
         /\ mapHas(transportDatabaseUrls, idOf(s))

\* two sessions were opened under different ids and the first was closed:
\* each map holds the entry of the second and nothing else
C36_Witness ==
  /\ Len(transports) = 2 /\ idOf(1) # idOf(2)
  /\ transports[1].closed /\ registered(2)
  /\ mapKeys(activeTransports) = {idOf(2)}
  /\ mapKeys(transportPermissions) = {idOf(2)}
  /\ mapKeys(transportDatabaseUrls) = {idOf(2)}

====
